---- MODULE Spec2Model ----
(***************************************************************************)
(* A model of godocjson (src/godocjson.go): the type signature stringifier *)
(* typeOf, the parameter flattening of processFuncDecl, the model copier   *)
(* (CopyFuncs, CopyValues, CopyPackage) and the command line driver main.  *)
(*                                                                         *)
(* Syntax tree nodes are records tagged with the go/ast node kind and      *)
(* carrying the go/ast field names (Elt, X, Sel, Key, Value, Fields,       *)
(* Methods, Params, Results, Names, Type, List).  A Go panic is modelled   *)
(* as a returned record with ok = FALSE carrying the panic message.        *)
(***************************************************************************)
EXTENDS Integers, Sequences, FiniteSets, TLC

VARIABLES
    x, ret, tpc,            \* typeOf: argument, returned value, position
    d, fun, fpc,            \* processFuncDecl: declaration, Func record, position
    directory, pkgs, pc,    \* main: parsed directory, packages left to emit, position
    cleanedPkg, pkgJSON,    \* main: result of CopyPackage, of json.MarshalIndent
    stdout, diag            \* main: documents printed, panic message of an abort

vars == <<x, ret, tpc, d, fun, fpc, directory, pkgs, pc, cleanedPkg, pkgJSON,
          stdout, diag>>

-----------------------------------------------------------------------------
(* Bounds of the model.                                                    *)

\* Nesting depth of the type expressions that are enumerated.
MaxDepth == 2
\* Largest number of names one field group binds (a, b int binds two).
MaxNames == 2
\* Largest number of packages the target directory declares.
MaxPkgs == 2

-----------------------------------------------------------------------------
(* go/ast values.                                                          *)

\* A nil *ast.FieldList (FuncType.Results of a function without results).
Nil == [kind |-> "nil"]

Ident(n) == [kind |-> "Ident", Name |-> n]
ArrayType(len, e) == [kind |-> "ArrayType", Len |-> len, Elt |-> e]
StarExpr(e) == [kind |-> "StarExpr", X |-> e]
Ellipsis(e) == [kind |-> "Ellipsis", Elt |-> e]
SelectorExpr(p, n) == [kind |-> "SelectorExpr", X |-> Ident(p), Sel |-> Ident(n)]
MapType(k, v) == [kind |-> "MapType", Key |-> k, Value |-> v]
StructType(fl) == [kind |-> "StructType", Fields |-> fl]
InterfaceType(fl) == [kind |-> "InterfaceType", Methods |-> fl]
FuncType(ps, rs) == [kind |-> "FuncType", Params |-> ps, Results |-> rs]
ChanType(e) == [kind |-> "ChanType", Value |-> e]
ParenExpr(e) == [kind |-> "ParenExpr", X |-> e]
Field(names, t) == [kind |-> "Field", Names |-> names, Type |-> t]
FieldList(l) == [kind |-> "FieldList", List |-> l]

\* The node kinds typeOf has a case for.
SupportedKinds ==
    {"Ident", "ArrayType", "Field", "StructType", "InterfaceType",
     "SelectorExpr", "Ellipsis", "StarExpr", "FuncType", "MapType"}

-----------------------------------------------------------------------------
(* Results of a call: a returned string, or a panic.                       *)

Return(s) == [ok |-> TRUE, val |-> s, panic |-> ""]
Panic(msg) == [ok |-> FALSE, val |-> "", panic |-> msg]

NilDeref == "runtime error: invalid memory address or nil pointer dereference"
IndexOutOfRange == "runtime error: index out of range"

\* Sequencing of calls: the value r returned is handed on to K; a panic
\* unwinds through the callers.
Then(r, K(_)) == IF r.ok THEN K(r.val) ELSE r

\* As Then, with the panic handed to H.
Catch(r, K(_), H(_)) == IF r.ok THEN K(r.val) ELSE H(r.panic)

-----------------------------------------------------------------------------
(* typeOf, src/godocjson.go lines 99-140.                                  *)

RECURSIVE SumFields(_, _)
SumFields(list, i) ==
    IF i > Len(list) THEN 0
    ELSE (IF Len(list[i].Names) = 0 THEN 1 ELSE Len(list[i].Names))
         + SumFields(list, i + 1)

\* (*ast.FieldList).NumFields: the number of names the list declares, an
\* anonymous field counting for one; 0 for a nil list.
NumFields(f) == IF f = Nil THEN 0 ELSE SumFields(f.List, 1)

RECURSIVE JoinFrom(_, _, _)
JoinFrom(a, sep, i) ==
    IF i > Len(a) THEN ""
    ELSE IF i = Len(a) THEN a[i]
    ELSE a[i] \o sep \o JoinFrom(a, sep, i + 1)

\* strings.Join
Join(a, sep) == JoinFrom(a, sep, 1)

\* make([]string, n) with the first Len(vals) slots assigned, as the loops
\* "for i, f := range list { slots[i] = typeOf(f.Type) }" leave it.
Slots(n, vals) == [i \in 1..n |-> IF i <= Len(vals) THEN vals[i] ELSE ""]

\* A variant of the default case that falls back to the empty string.
UnknownTypeSilent(node) == Return("")

\* The default case: panic(fmt.Sprintf("Unknown type %+v", x)).
UnknownType(node) == Panic("Unknown type " \o node.kind)

\* A variant of FuncString that concatenates the results without separator.
FuncStringNoSeparator(params, results) ==
    "func(" \o Join(params, ",") \o ")" \o Join(results, "")

\* A variant of MapString without the space before the bracket.
MapStringNoSpace(k, v) == "map[" \o k \o "]" \o v

\* The separators and brackets of the formatting calls.
StructString(fields) == "struct{" \o Join(fields, ",") \o "}"
InterfaceString(methods) == "interface{" \o Join(methods, ",") \o "}"
FuncString(params, results) ==
    "func(" \o Join(params, ",") \o ")" \o Join(results, ",")
MapString(k, v) == "map [" \o k \o "]" \o v

RECURSIVE typeOf(_)
RECURSIVE RangeTypeOf(_, _, _)

\* The loop over a field list: typeOf of each group's Type in order; the
\* first panic ends it.  acc is the sequence of strings assigned so far.
RangeTypeOf(list, i, acc) ==
    IF i > Len(list) THEN Return(acc)
    ELSE Then(typeOf(list[i].Type),
              LAMBDA t : RangeTypeOf(list, i + 1, Append(acc, t)))

\* x.Fields.List, x.Methods.List, x.Params.List, x.Results.List: reading
\* List through a nil *ast.FieldList panics.
RangeList(f) ==
    IF f = Nil THEN Panic(NilDeref) ELSE RangeTypeOf(f.List, 1, <<>>)

typeOf(node) ==
    CASE node.kind = "Ident" -> Return(node.Name)
      [] node.kind = "ArrayType" ->
            Then(typeOf(node.Elt), LAMBDA e : Return("[]" \o e))
      [] node.kind = "Field" ->
            IF Len(node.Names) = 0 THEN Panic(IndexOutOfRange)
            ELSE Then(typeOf(node.Type),
                      LAMBDA t : Return(node.Names[1] \o " " \o t))
      [] node.kind = "StructType" ->
            Then(RangeList(node.Fields),
                 LAMBDA fs : Return(StructString(Slots(NumFields(node.Fields), fs))))
      [] node.kind = "InterfaceType" ->
            Then(RangeList(node.Methods),
                 LAMBDA ms : Return(InterfaceString(Slots(NumFields(node.Methods), ms))))
      [] node.kind = "SelectorExpr" ->
            Then(typeOf(node.X), LAMBDA p : Return(p \o "." \o node.Sel.Name))
      [] node.kind = "Ellipsis" ->
            Then(typeOf(node.Elt), LAMBDA e : Return("..." \o e))
      [] node.kind = "StarExpr" ->
            Then(typeOf(node.X), LAMBDA e : Return("*" \o e))
      [] node.kind = "FuncType" ->
            Then(RangeList(node.Params),
                 LAMBDA ps :
                    Then(RangeList(node.Results),
                         LAMBDA rs :
                            Return(FuncString(Slots(NumFields(node.Params), ps),
                                              Slots(NumFields(node.Results), rs)))))
      [] node.kind = "MapType" ->
            Then(typeOf(node.Key),
                 LAMBDA k : Then(typeOf(node.Value),
                                 LAMBDA v : Return(MapString(k, v))))
      [] OTHER -> UnknownType(node)

-----------------------------------------------------------------------------
(* The type expressions go/parser can hand to typeOf, up to MaxDepth.      *)

NamePool == <<"a", "b", "c", "d", "e", "f">>

\* k names, the first being NamePool[off + 1].
Names(k, off) == [i \in 1..k |-> NamePool[off + i]]

\* A field group binding k names (none: an anonymous field) to type t.
Group(k, off, t) == Field(Names(k, off), t)

IntT == Ident("int")
StringT == Ident("string")
ErrorT == Ident("error")

IntErr == FieldList(<<Group(0, 0, IntT), Group(0, 0, ErrorT)>>)

\* Field lists whose groups are all named: one group of 1..MaxNames names,
\* alone or followed by a second group of one name.
NamedLists(S) ==
    {FieldList(<<Group(k, 0, t)>>) : k \in 1..MaxNames, t \in S}
    \cup {FieldList(<<Group(k, 0, t), Group(1, k, StringT)>>) :
            k \in 1..MaxNames, t \in S}

\* Field lists whose groups are all anonymous.
UnnamedLists(S) ==
    {FieldList(<<Group(0, 0, t)>>) : t \in S}
    \cup {FieldList(<<Group(0, 0, t), Group(0, 0, ErrorT)>>) : t \in S}

\* Parameter lists: empty, all named or all anonymous; a variadic type
\* only as the type of the final parameter.
ParamLists(S) ==
    {FieldList(<<>>)} \cup NamedLists(S) \cup UnnamedLists(S)
    \cup {FieldList(<<Group(k, 0, Ellipsis(t))>>) : k \in 0..1, t \in S}

\* Result lists: none (nil), empty parentheses, anonymous or named.
ResultLists(S) ==
    {Nil, FieldList(<<>>)} \cup UnnamedLists(S)
    \cup {FieldList(<<Group(k, 0, t)>>) : k \in 1..MaxNames, t \in S}

\* Struct fields: named groups, or one embedded type name.
StructLists(S) ==
    {FieldList(<<>>), FieldList(<<Group(0, 0, SelectorExpr("time", "Duration"))>>)}
    \cup NamedLists(S)

Level0 ==
    {IntT, StringT, SelectorExpr("time", "Duration"), ChanType(IntT), ParenExpr(IntT)}

\* The expressions whose children are drawn from Level0: every shape of
\* field list, fixed-length arrays, composite map keys.
Shapes ==
    {ArrayType("4", t) : t \in Level0}
    \cup {MapType(t, IntT) : t \in Level0}
    \cup {StructType(fl) : fl \in StructLists(Level0)}
    \cup {InterfaceType(FieldList(<<>>)),
          InterfaceType(FieldList(<<Group(0, 0, SelectorExpr("io", "Reader"))>>))}
    \cup {FuncType(ps, rs) : ps \in ParamLists(Level0), rs \in {Nil, IntErr}}
    \cup {FuncType(FieldList(<<Group(0, 0, IntT)>>), rs) : rs \in ResultLists(Level0)}

\* The expressions that nest one expression of S.  In an interface a method
\* is a field named for the method whose type is its signature.
Nest(S) ==
    {ArrayType("", t) : t \in S}
    \cup {StarExpr(t) : t \in S}
    \cup {MapType(StringT, t) : t \in S}
    \cup {StructType(FieldList(<<Group(1, 0, t)>>)) : t \in S}
    \cup {InterfaceType(FieldList(<<Group(1, 0, t)>>)) : t \in {u \in S : u.kind = "FuncType"}}
    \cup {FuncType(FieldList(<<Group(0, 0, t)>>), FieldList(<<Group(0, 0, ErrorT)>>)) : t \in S}
    \cup {FuncType(FieldList(<<Group(1, 0, IntT)>>), FieldList(<<Group(0, 0, t)>>)) : t \in S}

RECURSIVE Level(_)
Level(n) ==
    IF n = 0 THEN Level0
    ELSE LET S == Level(n - 1) IN S \cup Shapes \cup Nest(S)

\* What typeOf is called with: the Type of a parameter group of a function
\* declaration, which may be variadic.
TypeExprs ==
    Level(MaxDepth) \cup {Ellipsis(t) : t \in Level(MaxDepth - 1)}

-----------------------------------------------------------------------------
(* Specification of one call of typeOf.                                    *)

NoCall == Return("")

TypeOfInit ==
    /\ x \in TypeExprs
    /\ ret = NoCall
    /\ tpc = "call"
    /\ d = Nil /\ fun = Nil /\ fpc = "off"
    /\ directory = <<>> /\ pkgs = <<>> /\ pc = "off"
    /\ cleanedPkg = Nil /\ pkgJSON = Nil /\ stdout = <<>> /\ diag = ""

CallTypeOf ==
    /\ tpc = "call"
    /\ ret' = typeOf(x)
    /\ tpc' = "done"
    /\ UNCHANGED <<x, d, fun, fpc, directory, pkgs, pc, cleanedPkg, pkgJSON,
                   stdout, diag>>

TypeOfNext == CallTypeOf

SpecTypeOf == TypeOfInit /\ [][TypeOfNext]_vars

-----------------------------------------------------------------------------
(* Vocabulary of the properties of typeOf.                                 *)

\* The strings of the groups' types, one per group, in order.
GroupTypes(fl) == [i \in 1..Len(fl.List) |-> typeOf(fl.List[i].Type).val]

\* "name type", one per group, for groups that bind a name.
FieldStrings(fl) ==
    [i \in 1..Len(fl.List) |->
        fl.List[i].Names[1] \o " " \o typeOf(fl.List[i].Type).val]

OneNameEach(fl) == \A i \in 1..Len(fl.List) : Len(fl.List[i].Names) = 1
AtMostOneNameEach(fl) ==
    fl # Nil => \A i \in 1..Len(fl.List) : Len(fl.List[i].Names) <= 1

\* One string per declared name: the groups' types, then empty strings.
PerName(fl) ==
    GroupTypes(fl) \o [i \in 1..(NumFields(fl) - Len(fl.List)) |-> ""]

FieldTypes(fl) ==
    IF fl = Nil THEN {} ELSE {fl.List[i].Type : i \in 1..Len(fl.List)}

\* The expressions a node of a supported kind holds as types.
Children(node) ==
    CASE node.kind \in {"ArrayType", "Ellipsis"} -> {node.Elt}
      [] node.kind \in {"StarExpr", "SelectorExpr"} -> {node.X}
      [] node.kind = "MapType" -> {node.Key, node.Value}
      [] node.kind = "StructType" -> FieldTypes(node.Fields)
      [] node.kind = "InterfaceType" -> FieldTypes(node.Methods)
      [] node.kind = "FuncType" ->
            FieldTypes(node.Params) \cup FieldTypes(node.Results)
      [] OTHER -> {}

RECURSIVE Unsupported(_)
\* The nodes of an unsupported kind in a type expression.
Unsupported(node) ==
    IF node.kind \notin SupportedKinds THEN {node}
    ELSE UNION {Unsupported(c) : c \in Children(node)}

RECURSIVE HasNilResults(_)
\* Whether a function type of the expression has no result list.
HasNilResults(node) ==
    \/ node.kind = "FuncType" /\ node.Results = Nil
    \/ \E c \in Children(node) : HasNilResults(c)

-----------------------------------------------------------------------------
(* C4.  A struct type is rendered with its fields as "name type".          *)

\* C4: typeOf of a struct type whose fields each carry one name returns
\* "struct{" + the fields' "name type" strings joined with "," + "}".
C4_StructFieldsNamed ==
    (tpc = "done" /\ x.kind = "StructType" /\ OneNameEach(x.Fields) /\ ret.ok)
        => ret.val = "struct{" \o Join(FieldStrings(x.Fields), ",") \o "}"

-----------------------------------------------------------------------------
(* C5.  The format of a function type.                                     *)

-----------------------------------------------------------------------------
(* C10.  No empty slot in a joined list.                                   *)

\* C10: the joined sequence of a struct, an interface or a function type
\* has exactly one element per field group, none of them empty.
C10_OneElementPerGroup ==
    (tpc = "done" /\ ret.ok) =>
        /\ x.kind = "StructType" =>
              ret.val = "struct{" \o Join(GroupTypes(x.Fields), ",") \o "}"
        /\ x.kind = "InterfaceType" =>
              ret.val = "interface{" \o Join(GroupTypes(x.Methods), ",") \o "}"
        /\ x.kind = "FuncType" =>
              ret.val = "func(" \o Join(GroupTypes(x.Params), ",") \o ")"
                           \o Join(GroupTypes(x.Results), ",")

-----------------------------------------------------------------------------
(* C8.  Round trip with the source text.                                   *)

RECURSIVE RoundTripText(_)
\* The text C8 expects: the type literal as written in Go source with no
\* optional white space (the literal closest to what typeOf emits), except
\* that a map is written "map [K]V" and that the results of a function type
\* follow the ")" concatenated without separator.
RoundTripText(node) ==
    LET GroupText(g) ==
            IF Len(g.Names) = 0 THEN RoundTripText(g.Type)
            ELSE Join(g.Names, ",") \o " " \o RoundTripText(g.Type)
        ListText(fl, sep) ==
            Join([i \in 1..Len(fl.List) |-> GroupText(fl.List[i])], sep)
        ResultText(fl) ==
            IF fl = Nil THEN ""
            ELSE Join([i \in 1..Len(fl.List) |-> RoundTripText(fl.List[i].Type)], "")
        Signature(f) == "(" \o ListText(f.Params, ",") \o ")" \o ResultText(f.Results)
        MethodText(m) ==
            IF Len(m.Names) = 0 \/ m.Type.kind # "FuncType"
            THEN RoundTripText(m.Type)
            ELSE m.Names[1] \o Signature(m.Type)
    IN CASE node.kind = "Ident" -> node.Name
         [] node.kind = "ArrayType" ->
               "[" \o node.Len \o "]" \o RoundTripText(node.Elt)
         [] node.kind = "StarExpr" -> "*" \o RoundTripText(node.X)
         [] node.kind = "Ellipsis" -> "..." \o RoundTripText(node.Elt)
         [] node.kind = "SelectorExpr" ->
               RoundTripText(node.X) \o "." \o node.Sel.Name
         [] node.kind = "MapType" ->
               "map [" \o RoundTripText(node.Key) \o "]" \o RoundTripText(node.Value)
         [] node.kind = "StructType" ->
               IF Len(node.Fields.List) = 0 THEN "struct{}"
               ELSE "struct{" \o ListText(node.Fields, ";") \o "}"
         [] node.kind = "InterfaceType" ->
               IF Len(node.Methods.List) = 0 THEN "interface{}"
               ELSE "interface{"
                    \o Join([i \in 1..Len(node.Methods.List) |->
                                MethodText(node.Methods.List[i])], ";")
                    \o "}"
         [] node.kind = "FuncType" -> "func" \o Signature(node)
         [] OTHER -> ""

RECURSIVE ElementKinds(_)
\* The kinds of the nodes of an expression.
ElementKinds(node) ==
    {node.kind} \cup UNION {ElementKinds(c) : c \in Children(node)}

RECURSIVE HasArrayLen(_)
\* Whether an array type of the expression states a length.
HasArrayLen(node) ==
    \/ node.kind = "ArrayType" /\ node.Len # ""
    \/ \E c \in Children(node) : HasArrayLen(c)

\* C8 as stated: for an expression built only from the supported variants,
\* typeOf returns the source text (with the map and result formats).
C8_RoundTrip ==
    (tpc = "done" /\ Unsupported(x) = {}) => ret = Return(RoundTripText(x))

\* C8 amended: the round trip holds for the expressions built only from
\* identifiers, slices (arrays without a length), pointers, variadics,
\* qualified names and maps.
C8_RoundTripLinear ==
    (/\ tpc = "done"
     /\ ElementKinds(x) \subseteq
            {"Ident", "ArrayType", "StarExpr", "Ellipsis", "SelectorExpr", "MapType"}
     /\ ~HasArrayLen(x))
        => ret = Return(RoundTripText(x))

\* A pointer to a map has been rendered.
C8_Witness ==
    /\ tpc = "done"
    /\ x = StarExpr(MapType(StringT, SelectorExpr("time", "Duration")))
    /\ ret = Return("*map [string]time.Duration")

-----------------------------------------------------------------------------
(* processFuncDecl, src/godocjson.go lines 142-154.                        *)

FuncParam(t, n) == [Type |-> t, Name |-> n]

FuncDecl(pos, ps, rs) == [kind |-> "FuncDecl", Pos |-> pos, Type |-> FuncType(ps, rs)]

\* A variant of the inner loop that appends the first name of a group only.
AppendFirstName(params, t, names) ==
    IF Len(names) = 0 THEN params ELSE Append(params, FuncParam(t, names[1]))

\* The inner loop: one FuncParam per name of the group, in order.
AppendNames(params, t, names) ==
    params \o [j \in 1..Len(names) |-> FuncParam(t, names[j])]

RECURSIVE RangeParams(_, _, _)
\* The outer loop over d.Type.Params.List.  A panic of typeOf ends it; val
\* is then the list as appended to so far.
RangeParams(list, i, params) ==
    IF i > Len(list) THEN Return(params)
    ELSE Catch(typeOf(list[i].Type),
               LAMBDA t : RangeParams(list, i + 1,
                                      AppendNames(params, t, list[i].Names)),
               LAMBDA msg : [ok |-> FALSE, val |-> params, panic |-> msg])

\* f with fun.Params as the loop left it.
WithParams(f, r) == [ok |-> r.ok, val |-> [f EXCEPT !.Params = r.val], panic |-> r.panic]

\* Returns f with its Params set, or the panic.
processFuncDecl(decl, f) ==
    WithParams(f, RangeParams(decl.Type.Params.List, 1, <<>>))

-----------------------------------------------------------------------------
(* Specification of one call of processFuncDecl.                           *)

\* The Func record as CopyFuncs holds it when it calls processFuncDecl.
NewFunc(n, packageName, packageImportPath, position) ==
    [Doc |-> n.Doc, Name |-> n.Name, PackageName |-> packageName,
     PackageImportPath |-> packageImportPath, Type |-> "func",
     Orig |-> n.Orig, Recv |-> n.Recv,
     Filename |-> position.Filename, Line |-> position.Line,
     Params |-> <<>>]

\* A go/doc Func.
DocFunc(name, recv, decl) ==
    [Doc |-> name \o " doc.", Name |-> name, Orig |-> recv, Recv |-> recv,
     Decl |-> decl]

\* The parameter lists of the declarations: every shape over Level0, and
\* deeper types as the type of a group of MaxNames names.
DeclParamLists ==
    ParamLists(Level0)
    \cup {FieldList(<<Group(MaxNames, 0, t), Group(1, MaxNames, StringT)>>) :
            t \in Level(MaxDepth - 1)}

FuncDeclInit ==
    /\ d \in {FuncDecl(1, ps, rs) : ps \in DeclParamLists, rs \in {Nil, IntErr}}
    /\ fun = NewFunc(DocFunc("F", "", d), "p", "./src", [Filename |-> "a.go", Line |-> 1])
    /\ fpc = "call"
    /\ ret = NoCall
    /\ x = Nil /\ tpc = "off"
    /\ directory = <<>> /\ pkgs = <<>> /\ pc = "off"
    /\ cleanedPkg = Nil /\ pkgJSON = Nil /\ stdout = <<>> /\ diag = ""

\* What the call leaves: the Func record, and whether it panicked.
Outcome(r) ==
    /\ fun' = r.val
    /\ ret' = [ok |-> r.ok, val |-> "", panic |-> r.panic]

CallProcessFuncDecl ==
    /\ fpc = "call"
    /\ Outcome(processFuncDecl(d, fun))
    /\ fpc' = "done"
    /\ UNCHANGED <<x, tpc, d, directory, pkgs, pc, cleanedPkg, pkgJSON,
                   stdout, diag>>

FuncDeclNext == CallProcessFuncDecl

SpecFuncDecl == FuncDeclInit /\ [][FuncDeclNext]_vars

-----------------------------------------------------------------------------
(* C1.  Params is the flattening of the parameter groups.                  *)

RECURSIVE NamesBefore(_, _)
\* The number of names the groups before group i declare.
NamesBefore(list, i) ==
    IF i <= 1 THEN 0 ELSE NamesBefore(list, i - 1) + Len(list[i - 1].Names)

\* C1: when processFuncDecl returns, Params has one pair per parameter name;
\* the j-th name of group i stands, with the string of the group's type,
\* after all names of the groups before it and the names before it in its
\* group.
C1_ParamsFlattened ==
    (fpc = "done" /\ ret.ok) =>
        LET list == d.Type.Params.List
        IN /\ Len(fun.Params) = NamesBefore(list, Len(list) + 1)
           /\ \A i \in 1..Len(list) : \A j \in 1..Len(list[i].Names) :
                 fun.Params[NamesBefore(list, i) + j]
                    = FuncParam(typeOf(list[i].Type).val, list[i].Names[j])

\* (a, b int, c string) has been flattened.
C1_Witness ==
    /\ fpc = "done"
    /\ d.Type.Params = FieldList(<<Group(2, 0, IntT), Group(1, 2, StringT)>>)
    /\ fun.Params = <<FuncParam("int", "a"), FuncParam("int", "b"),
                      FuncParam("string", "c")>>

-----------------------------------------------------------------------------
(* The model copier, src/godocjson.go lines 156-241.                       *)

\* (*token.FileSet).Position: the file whose range holds the offset, and the
\* line in it (each declaration of the model stands on a line of its own);
\* the zero Position for an offset of no file.
Position(fileSet, p) ==
    IF \E i \in 1..Len(fileSet) :
          p >= fileSet[i].Base /\ p < fileSet[i].Base + fileSet[i].Size
    THEN LET i == CHOOSE k \in 1..Len(fileSet) :
                      p >= fileSet[k].Base /\ p < fileSet[k].Base + fileSet[k].Size
         IN [Filename |-> fileSet[i].Name, Line |-> p - fileSet[i].Base + 1]
    ELSE [Filename |-> "", Line |-> 0]

RECURSIVE RangeFuncs(_, _, _, _, _, _)
\* The loop of CopyFuncs; the first panic of processFuncDecl ends it.
RangeFuncs(f, i, newFuncs, packageName, packageImportPath, fileSet) ==
    IF i > Len(f) THEN Return(newFuncs)
    ELSE Catch(processFuncDecl(f[i].Decl,
                   NewFunc(f[i], packageName, packageImportPath,
                           Position(fileSet, f[i].Decl.Pos))),
               LAMBDA newFunc :
                   RangeFuncs(f, i + 1, Append(newFuncs, newFunc),
                              packageName, packageImportPath, fileSet),
               LAMBDA msg : Panic(msg))

CopyFuncs(f, packageName, packageImportPath, fileSet) ==
    RangeFuncs(f, 1, <<>>, packageName, packageImportPath, fileSet)

\* A variant of the Value record with the two package fields exchanged.
NewValueExchanged(c, packageName, packageImportPath, position) ==
    [Doc |-> c.Doc, Names |-> c.Names, PackageName |-> packageImportPath,
     PackageImportPath |-> packageName, Type |-> c.Decl.Tok,
     Filename |-> position.Filename, Line |-> position.Line]

\* One Value record of CopyValues.
NewValue(c, packageName, packageImportPath, position) ==
    [Doc |-> c.Doc, Names |-> c.Names, PackageName |-> packageName,
     PackageImportPath |-> packageImportPath, Type |-> c.Decl.Tok,
     Filename |-> position.Filename, Line |-> position.Line]

CopyValues(c, packageName, packageImportPath, fileSet) ==
    [i \in 1..Len(c) |->
        NewValue(c[i], packageName, packageImportPath,
                 Position(fileSet, c[i].Decl.TokPos))]

\* The Type record of CopyPackage's loop: Filename and Line are not among
\* the fields the literal sets and keep their zero values.
NewType(t, pkg, consts, funcs, methods, varsOfType) ==
    [Name |-> t.Name, PackageName |-> pkg.Name,
     PackageImportPath |-> pkg.ImportPath, Type |-> "type",
     Consts |-> consts, Doc |-> t.Doc, Funcs |-> funcs, Methods |-> methods,
     Vars |-> varsOfType, Filename |-> "", Line |-> 0]

RECURSIVE RangeTypes(_, _, _, _, _)
\* The loop over pkg.Types: the fields of the literal are evaluated in the
\* order written (Consts, Funcs, Methods, Vars).
RangeTypes(types, i, newTypes, pkg, fileSet) ==
    IF i > Len(types) THEN Return(newTypes)
    ELSE Then(CopyFuncs(types[i].Funcs, pkg.Name, pkg.ImportPath, fileSet),
           LAMBDA funcs :
             Then(CopyFuncs(types[i].Methods, pkg.Name, pkg.ImportPath, fileSet),
               LAMBDA methods :
                 RangeTypes(types, i + 1,
                    Append(newTypes,
                       NewType(types[i], pkg,
                          CopyValues(types[i].Consts, pkg.Name, pkg.ImportPath, fileSet),
                          funcs, methods,
                          CopyValues(types[i].Vars, pkg.Name, pkg.ImportPath, fileSet))),
                    pkg, fileSet)))

\* The Notes map: every note copied field by field under its marker.
CopyNotes(notes) ==
    [key \in DOMAIN notes |->
        [i \in 1..Len(notes[key]) |->
            [Pos |-> notes[key][i].Pos, End |-> notes[key][i].End,
             UID |-> notes[key][i].UID, Body |-> notes[key][i].Body]]]

\* The Package record, given the copies of the package's functions and types.
NewPackage(pkg, fileSet, funcs, types) ==
    [Type |-> "package", Doc |-> pkg.Doc, Name |-> pkg.Name,
     ImportPath |-> pkg.ImportPath, Imports |-> pkg.Imports,
     Filenames |-> pkg.Filenames, Bugs |-> pkg.Bugs,
     Notes |-> CopyNotes(pkg.Notes),
     Consts |-> CopyValues(pkg.Consts, pkg.Name, pkg.ImportPath, fileSet),
     Funcs |-> funcs, Types |-> types,
     Vars |-> CopyValues(pkg.Vars, pkg.Name, pkg.ImportPath, fileSet)]

CopyPackage(pkg, fileSet) ==
    Then(CopyFuncs(pkg.Funcs, pkg.Name, pkg.ImportPath, fileSet),
         LAMBDA funcs :
            Then(RangeTypes(pkg.Types, 1, <<>>, pkg, fileSet),
                 LAMBDA types : Return(NewPackage(pkg, fileSet, funcs, types))))

-----------------------------------------------------------------------------
(* The target directories: what parser.ParseDir and doc.New produce.       *)

GenDecl(tok, pos) == [kind |-> "GenDecl", Tok |-> tok, TokPos |-> pos]

DocValue(names, tok, pos) ==
    [Doc |-> names[1] \o " doc.", Names |-> names, Decl |-> GenDecl(tok, pos)]

DocType(name, pos, consts, varsOfType, funcs, methods) ==
    [Doc |-> name \o " doc.", Name |-> name, Decl |-> GenDecl("type", pos),
     Consts |-> consts, Vars |-> varsOfType, Funcs |-> funcs, Methods |-> methods]

DocNote(pos, body) == [Pos |-> pos, End |-> pos + 1, UID |-> "uid", Body |-> body]

DocPackage(name, importPath, consts, types, varsOfPkg, funcs, notes, bugs) ==
    [Doc |-> "Package " \o name, Name |-> name, ImportPath |-> importPath,
     Imports |-> <<"time">>, Filenames |-> <<"a.go", "b.go">>,
     Notes |-> notes, Bugs |-> bugs,
     Consts |-> consts, Types |-> types, Vars |-> varsOfPkg, Funcs |-> funcs]

\* The file set of a parsed directory: two files of eight offsets each.
TwoFiles ==
    <<[Name |-> "a.go", Base |-> 1, Size |-> 8],
      [Name |-> "b.go", Base |-> 10, Size |-> 8]>>

NoNotes == [key \in {} |-> <<>>]

\* A package whose only declaration is func F with parameters ps.
FuncsOnly(name, importPath, ps) ==
    DocPackage(name, importPath, <<>>, <<>>, <<>>,
               <<DocFunc("F", "", FuncDecl(3, ps, IntErr))>>, NoNotes, <<>>)

\* A package with declarations of every kind at every level; ps are the
\* parameters of the last package-level function.
Full(name, importPath, ps) ==
    DocPackage(name, importPath,
        <<DocValue(<<"A", "B">>, "const", 2)>>,
        <<DocType("T", 4,
                  <<DocValue(<<"TA">>, "const", 5)>>,
                  <<DocValue(<<"TV", "TW">>, "var", 6)>>,
                  <<DocFunc("NewT", "", FuncDecl(7, FieldList(<<Group(1, 0, IntT)>>), Nil))>>,
                  <<DocFunc("M", "*T", FuncDecl(8, FieldList(<<Group(2, 0, StringT)>>), Nil))>>)>>,
        <<DocValue(<<"V">>, "var", 10)>>,
        <<DocFunc("E", "", FuncDecl(11, FieldList(<<>>), Nil)),
          DocFunc("F", "", FuncDecl(12, ps, IntErr))>>,
        [key \in {"BUG"} |-> <<DocNote(13, "fix F")>>], <<"fix F">>)

\* A package of two types; ps are the parameters of a method of the second.
MethodOnly(name, importPath, ps) ==
    DocPackage(name, importPath, <<>>,
        <<DocType("S", 2, <<>>, <<>>, <<>>, <<>>),
          DocType("T", 4, <<>>, <<>>, <<>>,
                  <<DocFunc("M", "T", FuncDecl(5, ps, Nil))>>)>>,
        <<>>, <<>>, NoNotes, <<>>)

\* A package of one type; ps are the parameters of a function returning it.
TypeFuncOnly(name, importPath, ps) ==
    DocPackage(name, importPath, <<>>,
        <<DocType("T", 11, <<>>, <<>>,
                  <<DocFunc("NewT", "", FuncDecl(12, ps, Nil))>>, <<>>)>>,
        <<DocValue(<<"V">>, "var", 14)>>, <<>>, NoNotes, <<>>)

PkgNames == <<"p", "q", "r", "s">>

Packages(importPath) ==
    {FuncsOnly("p", importPath, ps) : ps \in DeclParamLists}
    \cup {Full("p", importPath, ps) : ps \in DeclParamLists}
    \cup {MethodOnly("p", importPath, ps) : ps \in DeclParamLists}
    \cup {TypeFuncOnly("p", importPath, ps) : ps \in DeclParamLists}

\* n packages of distinct names; the parameters vary in the first.
PackageLists(importPath, n) ==
    {[i \in 1..n |->
        IF i = 1 THEN FuncsOnly("p", importPath, ps)
        ELSE FuncsOnly(PkgNames[i], importPath, FieldList(<<Group(1, 0, IntT)>>))] :
     ps \in ParamLists(Level0)}

Dir(arg, parseError, packages) ==
    [arg |-> arg, parseError |-> parseError, fileSet |-> TwoFiles,
     packages |-> packages]

\* The command line and the directory it names.  doc.New is given the
\* directory argument as the import path of the package.
Directories ==
    {Dir("", FALSE, <<>>), Dir("./src", TRUE, <<>>), Dir("./src", FALSE, <<>>)}
    \cup {Dir("./src", FALSE, <<pkg>>) : pkg \in Packages("./src")}
    \cup UNION {{Dir("./src", FALSE, l) : l \in PackageLists("./src", n)} : n \in 2..MaxPkgs}

-----------------------------------------------------------------------------
(* main, src/godocjson.go lines 266-299.                                   *)

UsageMsg == "Fatal: Please specify a target_directory."
ParseErrorMsg == "firstError"
MultiplePackagesMsg == "Multiple packages found in directory!\n"

\* A variant of the check that lets two packages through.
MultiplePackagesOffByOne(found) == Len(found) > 2

\* len(pkgs) > 1
MultiplePackages(found) == Len(found) > 1

\* json.MarshalIndent(cleanedPkg, "", "  ")
MarshalIndent(v, prefix, indent) == [prefix |-> prefix, indent |-> indent, document |-> v]

Init ==
    /\ directory \in Directories
    /\ pkgs = <<>>
    /\ pc = "start"
    /\ cleanedPkg = Nil /\ pkgJSON = Nil /\ stdout = <<>> /\ diag = ""
    /\ x = Nil /\ ret = NoCall /\ tpc = "off"
    /\ d = Nil /\ fun = Nil /\ fpc = "off"

\* flag.Parse and the check of the directory argument.
ParseArgs ==
    /\ pc = "start"
    /\ IF directory.arg = ""
       THEN pc' = "fatal" /\ diag' = UsageMsg
       ELSE pc' = "parse" /\ diag' = diag
    /\ UNCHANGED <<x, ret, tpc, d, fun, fpc, directory, pkgs, cleanedPkg,
                   pkgJSON, stdout>>

\* parser.ParseDir and the panic on its error.
ParseDir ==
    /\ pc = "parse"
    /\ IF directory.parseError
       THEN pc' = "panic" /\ diag' = ParseErrorMsg /\ pkgs' = pkgs
       ELSE pc' = "check" /\ diag' = diag /\ pkgs' = directory.packages
    /\ UNCHANGED <<x, ret, tpc, d, fun, fpc, directory, cleanedPkg, pkgJSON,
                   stdout>>

\* The panic on more than one package.
CheckPackages ==
    /\ pc = "check"
    /\ IF MultiplePackages(pkgs)
       THEN pc' = "panic" /\ diag' = MultiplePackagesMsg
       ELSE pc' = "loop" /\ diag' = diag
    /\ UNCHANGED <<x, ret, tpc, d, fun, fpc, directory, pkgs, cleanedPkg,
                   pkgJSON, stdout>>

\* The result of CopyPackage is kept in cleanedPkg; its panic ends the run.
Copied(r) ==
    IF r.ok
    THEN pc' = "marshal" /\ cleanedPkg' = r.val /\ diag' = diag
    ELSE pc' = "panic" /\ cleanedPkg' = cleanedPkg /\ diag' = r.panic

\* One iteration of the loop over pkgs, up to the result of CopyPackage; a
\* map is ranged over in no fixed order.
Copy ==
    /\ pc = "loop"
    /\ \E i \in 1..Len(pkgs) :
          /\ pkgs' = [j \in 1..(Len(pkgs) - 1) |->
                         IF j < i THEN pkgs[j] ELSE pkgs[j + 1]]
          /\ Copied(CopyPackage(pkgs[i], directory.fileSet))
    /\ UNCHANGED <<x, ret, tpc, d, fun, fpc, directory, pkgJSON, stdout>>

Marshal ==
    /\ pc = "marshal"
    /\ pkgJSON' = MarshalIndent(cleanedPkg, "", "  ")
    /\ pc' = "print"
    /\ UNCHANGED <<x, ret, tpc, d, fun, fpc, directory, pkgs, cleanedPkg,
                   stdout, diag>>

\* fmt.Printf("%s\n", pkgJSON)
Printf ==
    /\ pc = "print"
    /\ stdout' = Append(stdout, pkgJSON)
    /\ pc' = "loop"
    /\ UNCHANGED <<x, ret, tpc, d, fun, fpc, directory, pkgs, cleanedPkg,
                   pkgJSON, diag>>

\* The loop has ranged over every package: main returns.
Return0 ==
    /\ pc = "loop"
    /\ pkgs = <<>>
    /\ pc' = "exit"
    /\ UNCHANGED <<x, ret, tpc, d, fun, fpc, directory, pkgs, cleanedPkg,
                   pkgJSON, stdout, diag>>

Next ==
    \/ ParseArgs
    \/ ParseDir
    \/ CheckPackages
    \/ Copy
    \/ Marshal
    \/ Printf
    \/ Return0

Spec == Init /\ [][Next]_vars

-----------------------------------------------------------------------------
(* Vocabulary of the properties of the copier and of main.                 *)

\* The declarations CopyPackage hands to processFuncDecl.
FuncDecls(pkg) ==
    {pkg.Funcs[i].Decl : i \in 1..Len(pkg.Funcs)}
    \cup UNION {{pkg.Types[i].Funcs[j].Decl : j \in 1..Len(pkg.Types[i].Funcs)}
                \cup {pkg.Types[i].Methods[j].Decl : j \in 1..Len(pkg.Types[i].Methods)} :
                i \in 1..Len(pkg.Types)}

\* The parameter types of a package: what typeOf is called with.
ParamTypes(pkg) == UNION {FieldTypes(decl.Type.Params) : decl \in FuncDecls(pkg)}

\* The nodes of an unsupported kind in the parameter types of a package.
PkgUnsupported(pkg) == UNION {Unsupported(t) : t \in ParamTypes(pkg)}

PkgHasNilResults(pkg) == \E t \in ParamTypes(pkg) : HasNilResults(t)

\* The run has one package to document.
OnePackage ==
    directory.arg # "" /\ ~directory.parseError /\ Len(directory.packages) = 1

\* The run ended in a panic raised under CopyPackage.
CopyPanicked == pc = "panic" /\ diag \notin {ParseErrorMsg, MultiplePackagesMsg}

\* The Func records of a copied package, at both levels.
FuncRecords(P) ==
    {P.Funcs[i] : i \in 1..Len(P.Funcs)}
    \cup UNION {{P.Types[i].Funcs[j] : j \in 1..Len(P.Types[i].Funcs)}
                \cup {P.Types[i].Methods[j] : j \in 1..Len(P.Types[i].Methods)} :
                i \in 1..Len(P.Types)}

\* The Value records of a copied package, at both levels.
ValueRecords(P) ==
    {P.Consts[i] : i \in 1..Len(P.Consts)}
    \cup {P.Vars[i] : i \in 1..Len(P.Vars)}
    \cup UNION {{P.Types[i].Consts[j] : j \in 1..Len(P.Types[i].Consts)}
                \cup {P.Types[i].Vars[j] : j \in 1..Len(P.Types[i].Vars)} :
                i \in 1..Len(P.Types)}

TypeRecords(P) == {P.Types[i] : i \in 1..Len(P.Types)}

-----------------------------------------------------------------------------
(* C2.  Every record carries the package's name and import path.           *)

\* C2: in the Package CopyPackage returned, which carries the name and the
\* import path of the documented package, every Func, Type and Value record
\* at either level has that packageName and that packageImportPath.
C2_OwningPackage ==
    cleanedPkg # Nil =>
        /\ cleanedPkg.Name = directory.packages[1].Name
        /\ cleanedPkg.ImportPath = directory.packages[1].ImportPath
        /\ \A r \in FuncRecords(cleanedPkg) \cup ValueRecords(cleanedPkg)
                    \cup TypeRecords(cleanedPkg) :
              /\ r.PackageName = cleanedPkg.Name
              /\ r.PackageImportPath = cleanedPkg.ImportPath

\* A package with records of every kind at both levels has been copied.
C2_Witness ==
    /\ cleanedPkg # Nil
    /\ cleanedPkg.Name = "p" /\ cleanedPkg.ImportPath = "./src"
    /\ Len(cleanedPkg.Consts) > 0 /\ Len(cleanedPkg.Vars) > 0
    /\ Len(cleanedPkg.Funcs) > 0 /\ Len(cleanedPkg.Types) > 0
    /\ Len(cleanedPkg.Types[1].Consts) > 0 /\ Len(cleanedPkg.Types[1].Vars) > 0
    /\ Len(cleanedPkg.Types[1].Funcs) > 0 /\ Len(cleanedPkg.Types[1].Methods) > 0

-----------------------------------------------------------------------------
(* C3.  Type records carry the location of the declaration.                *)

\* C3: every Type record of the copied package has the filename and the
\* 1-based line the file set gives for the position of its declaration.
C3_TypeLocation ==
    cleanedPkg # Nil =>
        \A i \in 1..Len(cleanedPkg.Types) :
            LET position == Position(directory.fileSet,
                                     directory.packages[1].Types[i].Decl.TokPos)
            IN /\ cleanedPkg.Types[i].Filename = position.Filename
               /\ cleanedPkg.Types[i].Line = position.Line
               /\ cleanedPkg.Types[i].Filename # ""
               /\ cleanedPkg.Types[i].Line >= 1

-----------------------------------------------------------------------------
(* C6.  An unsupported type expression aborts the run.                     *)

\* C6: when a parameter type of the package holds a node of an unsupported
\* kind, CopyPackage returns nothing and nothing is marshalled or printed:
\* the run ends in the panic of the first node typeOf reaches that it cannot
\* render, with the message naming an unsupported node unless a function
\* type without results was reached first.
C6_UnsupportedAborts ==
    (OnePackage /\ PkgUnsupported(directory.packages[1]) # {}) =>
        /\ cleanedPkg = Nil /\ pkgJSON = Nil /\ stdout = <<>>
        /\ pc \in {"start", "parse", "check", "loop", "panic"}
        /\ pc = "loop" => pkgs # <<>>
        /\ pc = "panic" =>
              \/ diag \in {"Unknown type " \o n.kind :
                              n \in PkgUnsupported(directory.packages[1])}
              \/ PkgHasNilResults(directory.packages[1]) /\ diag = NilDeref

\* The run was aborted by a channel type nested in a supported type.
C6_Witness ==
    /\ OnePackage
    /\ pc = "panic" /\ diag = "Unknown type ChanType" /\ stdout = <<>>
    /\ \A t \in ParamTypes(directory.packages[1]) : t.kind \in SupportedKinds
    /\ \E n \in PkgUnsupported(directory.packages[1]) : n.kind = "ChanType"

-----------------------------------------------------------------------------
(* C7.  More than one package: no output.                                  *)

\* C7: in a run whose directory holds more than one package nothing is
\* copied, marshalled or printed, and the run goes from the check to the
\* panic about multiple packages.
C7_MultiplePackagesNoOutput ==
    (directory.arg # "" /\ ~directory.parseError /\ Len(directory.packages) > 1) =>
        /\ cleanedPkg = Nil /\ pkgJSON = Nil /\ stdout = <<>>
        /\ pc \in {"start", "parse", "check", "panic"}
        /\ pc = "panic" => diag = MultiplePackagesMsg

\* A run over two packages has been aborted.
C7_Witness ==
    /\ Len(directory.packages) = 2 /\ Len(pkgs) = 2
    /\ pc = "panic" /\ diag = MultiplePackagesMsg /\ stdout = <<>>

-----------------------------------------------------------------------------
(* C9.  The copier aborts for unsupported parameter types only.            *)

\* C9: a panic under CopyPackage happens only when a parameter type of the
\* package holds a node of an unsupported kind.
C9_AbortsOnlyOnUnsupported ==
    (OnePackage /\ CopyPanicked) => PkgUnsupported(directory.packages[1]) # {}

====
